---- MODULE Spec2Model ----
(***************************************************************************)
(* A model of snapnotes.py: the JSON note store on disk (ensure_store,     *)
(* load_store, save_store), the note repository (add_note, list_notes,     *)
(* find_note, delete_note, search_notes) and the exporter (export_notes).  *)
(*                                                                         *)
(* Every CLI invocation is a process that runs one command.  The file      *)
(* system is modelled at the level of the system calls the code makes:     *)
(* path names point to inodes, an open file is a reference to an inode,    *)
(* open(..., "w") creates or truncates, buffered writes reach the inode    *)
(* in chunks and the rest at close, rename replaces a name atomically      *)
(* (POSIX os.rename, which shutil.move tries first).                       *)
(*                                                                         *)
(* Text is a sequence of one-character strings; a file's content is a      *)
(* sequence of JSON / Markdown tokens.                                     *)
(***************************************************************************)
EXTENDS Integers, Sequences, FiniteSets, TLC

(***************************************************************************)
(* Bounds of the model.                                                    *)
(***************************************************************************)
\* add_note is called at most MaxAdds times in a run
MaxAdds == 2
\* the clock read by add_note shows one of the instants 1..MaxTime
MaxTime == 2
\* tokens the buffered writer holds before it flushes to the file
BufSize == 4

\* CLI invocations that may run at the same time
Procs == {1, 2}

(***************************************************************************)
(* Text: str.strip, str.lower and the `in` operator on strings.            *)
(***************************************************************************)
IsSpace(c) == c = " "

RECURSIVE LStrip(_)
LStrip(s) == IF s # <<>> /\ IsSpace(Head(s)) THEN LStrip(Tail(s)) ELSE s

RECURSIVE RStrip(_)
RStrip(s) ==
    IF s # <<>> /\ IsSpace(s[Len(s)]) THEN RStrip(SubSeq(s, 1, Len(s) - 1)) ELSE s

Strip(s) == RStrip(LStrip(s))

LowerChar(c) ==
    CASE c = "A" -> "a"
      [] c = "B" -> "b"
      [] c = "C" -> "c"
      [] OTHER   -> c

Lower(s) == [i \in 1..Len(s) |-> LowerChar(s[i])]

\* q in s: q occurs in s at some offset (the empty q occurs at offset 0)
\* a mutant of StrIn: the empty text is in no text
StrInNonEmpty(q, s) ==
    /\ q # <<>>
    /\ \E k \in 0..(Len(s) - Len(q)) : SubSeq(s, k + 1, k + Len(q)) = q

StrIn(q, s) ==
    \E k \in 0..(Len(s) - Len(q)) : SubSeq(s, k + 1, k + Len(q)) = q

(***************************************************************************)
(* The values the commands are called with.                                *)
(***************************************************************************)
NoteInputs ==
    { [title |-> <<" ", "A", "b">>, body |-> <<>>, tags |-> <<>>],
      [title |-> <<"b">>, body |-> <<"A", " ">>,
       tags |-> << <<"a", "B">>, <<" ">> >>],
      [title |-> <<"c">>, body |-> <<>>, tags |-> << <<" ", "B">> >>] }

Queries == { <<>>, <<"A">>, <<"a", "B">>, <<"B">>, <<"c", "c">> }

Times == 1..MaxTime

Ids == 1..(MaxAdds + 1)

Formats == {"md", "json"}

\* the notes added when invocations run at the same time
ConcInputs == { [title |-> <<" ", "A", "b">>, body |-> <<>>, tags |-> <<>>] }

(***************************************************************************)
(* Paths.  NOTES_FILE, its sibling with the suffix .tmp, and the path an   *)
(* export is written to when it is not one of these.                       *)
(***************************************************************************)
NOTES_FILE == "store"
OutPath == "out"
Paths == {"store", "tmp", "out"}


(***************************************************************************)
(* The in-memory store: a Python dict, which keeps its keys in insertion   *)
(* order.  A dict is a sequence of <<key, value>> pairs.                   *)
(***************************************************************************)
DictHas(d, k) == \E i \in 1..Len(d) : d[i][1] = k

\* d.get(k, default)
DictGet(d, k, default) ==
    IF DictHas(d, k) THEN d[CHOOSE i \in 1..Len(d) : d[i][1] = k][2]
    ELSE default

\* d[k] = v: an existing key keeps its place, a new key goes last
DictSet(d, k, v) ==
    IF DictHas(d, k)
    THEN [i \in 1..Len(d) |-> IF d[i][1] = k THEN <<k, v>> ELSE d[i]]
    ELSE Append(d, <<k, v>>)

\* {"next_id": 1, "notes": []}
InitialStore == << <<"next_id", 1>>, <<"notes", <<>> >> >>

(***************************************************************************)
(* Serialization.  json.dump writes the dict as a text, here a sequence    *)
(* of tokens: the braces and brackets, each key, each integer, and each    *)
(* note object as one token.  json.load parses a text back, and raises     *)
(* JSONDecodeError on a text that is no JSON document.  NUL is the zero    *)
(* byte a file shows where nothing was written (a hole).                   *)
(***************************************************************************)
Punct(c)   == <<"p", c>>
KeyTok(k)  == <<"k", k>>
IntTok(n)  == <<"i", n>>
NoteTok(n) == <<"n", n>>
MdTok(n)   == <<"md", n>>
NUL        == <<"z", 0>>

IsPunct(t, c) == t[1] = "p" /\ t[2] = c

DumpNotes(notes) == [i \in 1..Len(notes) |-> NoteTok(notes[i])]

DumpValue(v, isList) ==
    IF isList THEN <<Punct("[")>> \o DumpNotes(v) \o <<Punct("]")>>
    ELSE <<IntTok(v)>>

RECURSIVE DumpPairs(_)
DumpPairs(d) ==
    IF d = <<>> THEN <<>>
    ELSE <<KeyTok(d[1][1])>> \o DumpValue(d[1][2], d[1][1] = "notes")
         \o DumpPairs(Tail(d))

\* json.dump(data, f, ensure_ascii=False, indent=2): the text written
Dump(d) == <<Punct("{")>> \o DumpPairs(d) \o <<Punct("}")>>

\* a mutant of SaveText: the dict is rebuilt with "notes" first
SaveTextNotesFirst(d) ==
    Dump(<< <<"notes", DictGet(d, "notes", <<>>)>>,
            <<"next_id", DictGet(d, "next_id", 1)>> >>)

\* the text save_store writes for data
SaveText(d) == Dump(d)

Corrupt == [ok |-> FALSE, d |-> <<>>]

\* the index of the first token at or after j that is no note object
RECURSIVE ListEnd(_, _)
ListEnd(toks, j) ==
    IF j > Len(toks) THEN 0
    ELSE IF toks[j][1] = "n" THEN ListEnd(toks, j + 1)
    ELSE j

RECURSIVE ParsePairs(_, _)
ParsePairs(toks, acc) ==
    IF toks = <<>> THEN [ok |-> TRUE, d |-> acc]
    ELSE IF Len(toks) < 2 \/ toks[1][1] # "k" THEN Corrupt
    ELSE IF toks[2][1] = "i"
         THEN ParsePairs(SubSeq(toks, 3, Len(toks)),
                         DictSet(acc, toks[1][2], toks[2][2]))
    ELSE IF IsPunct(toks[2], "[")
         THEN LET j == ListEnd(toks, 3)
              IN  IF j = 0 \/ ~IsPunct(toks[j], "]") THEN Corrupt
                  ELSE ParsePairs(
                           SubSeq(toks, j + 1, Len(toks)),
                           DictSet(acc, toks[1][2],
                                   [i \in 1..(j - 3) |-> toks[i + 2][2]]))
    ELSE Corrupt

\* json.load(f) on the text read: the dict, or not ok (JSONDecodeError)
Parse(text) ==
    IF Len(text) < 2 \/ ~IsPunct(text[1], "{")
       \/ ~IsPunct(text[Len(text)], "}")
    THEN Corrupt
    ELSE ParsePairs(SubSeq(text, 2, Len(text) - 1), <<>>)

(***************************************************************************)
(* The file system.                                                        *)
(***************************************************************************)
Inodes == 1..(Cardinality(Paths) + Cardinality(Procs))

Referenced(i, nm, f) ==
    \/ \E path \in Paths : nm[path] = i
    \/ \E q \in Procs : f[q] = i

\* the inode a newly created file gets
FreshInode(nm, f) ==
    CHOOSE i \in Inodes :
        /\ ~Referenced(i, nm, f)
        /\ \A j \in 1..(i - 1) : Referenced(j, nm, f)

\* an inode no name and no open file refers to is gone
Collect(nm, f, ino) ==
    [i \in Inodes |-> IF Referenced(i, nm, f) THEN ino[i] ELSE <<>>]

Max(a, b) == IF a >= b THEN a ELSE b

\* write(2) of chunk at offset off of a file whose content is text
WriteAt(text, off, chunk) ==
    [i \in 1..Max(Len(text), off + Len(chunk)) |->
        IF i > off /\ i <= off + Len(chunk) THEN chunk[i - off]
        ELSE IF i <= Len(text) THEN text[i]
        ELSE NUL]

(***************************************************************************)
(* The repository's computations on the loaded store.                      *)
(***************************************************************************)
\* datetime.utcnow().isoformat() + 'Z' at the instant t
IsoFormat(t) == <<t, "Z">>

\* [t.strip() for t in (tags or []) if t.strip()]
FilterTags(tags) ==
    SelectSeq([i \in 1..Len(tags) |-> Strip(tags[i])], LAMBDA t : t # <<>>)

\* Note(id=nid, title=title.strip(), body=body.strip(), tags=..., created_at=...)
MakeNote(nid, inp, t) ==
    [id         |-> nid,
     title      |-> Strip(inp.title),
     body       |-> Strip(inp.body),
     tags       |-> FilterTags(inp.tags),
     created_at |-> IsoFormat(t)]

\* a mutant of NextId: the id is the number of notes plus one
NextIdByCount(d) == Len(DictGet(d, "notes", <<>>)) + 1

\* the id add_note gives the new note
NextId(d) == DictGet(d, "next_id", 1)

\* a mutant of AddNoteData: next_id is written back as it was read
AddNoteDataNoIncrement(d, inp, t) ==
    LET nid   == DictGet(d, "next_id", 1)
        note  == MakeNote(nid, inp, t)
        added == DictSet(d, "notes", Append(DictGet(d, "notes", <<>>), note))
    IN  DictSet(added, "next_id", nid)

\* a mutant of AddNoteData: the new note is put before the others
AddNoteDataPrepend(d, inp, t) ==
    LET nid   == DictGet(d, "next_id", 1)
        note  == MakeNote(nid, inp, t)
        added == DictSet(d, "notes", <<note>> \o DictGet(d, "notes", <<>>))
    IN  DictSet(added, "next_id", nid + 1)

\* add_note between load_store and save_store
AddNoteData(d, inp, t) ==
    LET nid   == NextId(d)
        note  == MakeNote(nid, inp, t)
        added == DictSet(d, "notes", Append(DictGet(d, "notes", <<>>), note))
    IN  DictSet(added, "next_id", nid + 1)

\* list_notes on the loaded store
ListNotesOf(d) == DictGet(d, "notes", <<>>)

\* find_note: the first note with the id, None (the empty sequence) if none
RECURSIVE FindIn(_, _)
FindIn(notes, id) ==
    IF notes = <<>> THEN <<>>
    ELSE IF Head(notes).id = id THEN <<Head(notes)>>
    ELSE FindIn(Tail(notes), id)

\* a mutant of DeleteFrom: the id is taken for the position in the list
DeleteAtPosition(notes, id) ==
    IF id \in 1..Len(notes)
    THEN SubSeq(notes, 1, id - 1) \o SubSeq(notes, id + 1, Len(notes))
    ELSE notes

\* [n for n in notes if n.get("id") != note_id]
DeleteFrom(notes, id) == SelectSeq(notes, LAMBDA n : n.id # id)

\* a mutant of NothingRemoved: the store is saved whatever was removed
AlwaysRemoved(notes, new_notes) == FALSE

\* len(new_notes) == len(notes)
NothingRemoved(notes, new_notes) == Len(new_notes) = Len(notes)

\* any(q in t.lower() for t in n.tags)
AnyTag(q, tags) == \E i \in 1..Len(tags) : StrIn(q, Lower(tags[i]))

\* a mutant of Hit: the tags are not searched
HitNoTags(q, n) ==
    \/ StrIn(q, Lower(n.title))
    \/ StrIn(q, Lower(n.body))

\* the condition of search_notes' loop body
Hit(q, n) ==
    \/ StrIn(q, Lower(n.title))
    \/ StrIn(q, Lower(n.body))
    \/ AnyTag(q, n.tags)

RECURSIVE SearchLoop(_, _, _)
SearchLoop(q, notes, result) ==
    IF notes = <<>> THEN result
    ELSE SearchLoop(q, Tail(notes),
                    IF Hit(q, Head(notes)) THEN Append(result, Head(notes))
                    ELSE result)

\* search_notes on the listed notes
SearchIn(notes, query) == SearchLoop(Lower(query), notes, <<>>)

\* a mutant of ExportText: the JSON document lists the newest note first
ExportTextNewestFirst(notes, fmt) ==
    IF fmt = "md" THEN [i \in 1..Len(notes) |-> MdTok(notes[i])]
    ELSE Dump(<< <<"notes",
                   [i \in 1..Len(notes) |-> notes[Len(notes) + 1 - i]]>> >>)

\* what export_notes writes: one Markdown section per note, or the JSON
\* document {"notes": [...]}
ExportText(notes, fmt) ==
    IF fmt = "md" THEN [i \in 1..Len(notes) |-> MdTok(notes[i])]
    ELSE Dump(<< <<"notes", notes>> >>)

(***************************************************************************)
(* State.                                                                  *)
(***************************************************************************)
VARIABLES
    appDir,      \* APP_DIR exists
    names,       \* path -> inode, 0 when no file has the name
    inodes,      \* inode -> content
    pc,          \* process -> the place it is at in its command
    op,          \* process -> the command it runs (or ran last) and its arguments
    data,        \* process -> the dict load_store returned, as changed since
    fd,          \* process -> the inode of its open file, 0 when none
    off,         \* process -> tokens it has written to its open file
    ret,         \* process -> how its last command ended, and its value
    adds,        \* history: the number of add_note calls made
    afterDelete, \* history: process -> id, when its previous call was a
                 \*          delete_note(id) that returned, else 0
    pre,         \* history: process -> the store file when its command began
    saved,       \* history: process -> its command has called save_store
    everIds      \* history: the ids of all notes the store file ever held

vars == <<appDir, names, inodes, pc, op, data, fd, off, ret,
          adds, afterDelete, pre, saved, everIds>>

fsVars == <<appDir, names, inodes>>
histVars == <<adds, afterDelete, pre, saved>>

\* a mutant of TmpPath: save_store writes the store file in place
TmpPathInPlace == "store"

\* NOTES_FILE.with_suffix('.tmp')
TmpPath == "tmp"

Exists(nm, path) == nm[path] # 0

\* the content of the file at a path (empty when there is none)
Content(nm, ino, path) == IF Exists(nm, path) THEN ino[nm[path]] ELSE <<>>

StoreText == Content(names, inodes, NOTES_FILE)

Snapshot == [exists |-> Exists(names, NOTES_FILE), text |-> StoreText]

NoteIds(notes) == {notes[i].id : i \in 1..Len(notes)}

\* the ids of the notes in the store file, when it holds a store
StoreIds(nm, ino) ==
    LET r == Parse(Content(nm, ino, NOTES_FILE))
    IN  IF r.ok THEN NoteIds(ListNotesOf(r.d)) ELSE {}

Track == everIds' = everIds \cup StoreIds(names', inodes')

NoOp == [cmd |-> "none"]
NoRet == [status |-> "none", val |-> 0]

Init ==
    /\ \/ /\ appDir = FALSE
          /\ names = [path \in Paths |-> 0]
          /\ inodes = [i \in Inodes |-> <<>>]
       \/ /\ appDir = TRUE
          /\ names = [path \in Paths |-> IF path = NOTES_FILE THEN 1 ELSE 0]
          /\ inodes = [i \in Inodes |-> IF i = 1 THEN Dump(InitialStore) ELSE <<>>]
    /\ pc = [p \in Procs |-> "idle"]
    /\ op = [p \in Procs |-> NoOp]
    /\ data = [p \in Procs |-> <<>>]
    /\ fd = [p \in Procs |-> 0]
    /\ off = [p \in Procs |-> 0]
    /\ ret = [p \in Procs |-> NoRet]
    /\ adds = 0
    /\ afterDelete = [p \in Procs |-> 0]
    /\ pre = [p \in Procs |-> [exists |-> FALSE, text |-> <<>>]]
    /\ saved = [p \in Procs |-> FALSE]
    /\ everIds = {}

(***************************************************************************)
(* A CLI invocation: main dispatches on the subcommand.                    *)
(***************************************************************************)
Begin(p, o) ==
    /\ pc[p] = "idle"
    /\ pc' = [pc EXCEPT ![p] = "ensure"]
    /\ op' = [op EXCEPT ![p] = o]
    /\ pre' = [pre EXCEPT ![p] = Snapshot]
    /\ UNCHANGED <<fsVars, data, fd, off, ret, afterDelete, saved, everIds>>

StartAdd(p, inputs, times) ==
    /\ adds < MaxAdds
    /\ \E inp \in inputs, t \in times :
          Begin(p, [cmd |-> "add", inp |-> inp, now |-> t])
    /\ adds' = adds + 1

StartList(p) ==
    /\ Begin(p, [cmd |-> "list"])
    /\ UNCHANGED adds

StartFind(p) ==
    /\ \E id \in Ids : Begin(p, [cmd |-> "find", id |-> id])
    /\ UNCHANGED adds

StartDelete(p) ==
    /\ \E id \in Ids : Begin(p, [cmd |-> "delete", id |-> id])
    /\ UNCHANGED adds

StartSearch(p) ==
    /\ \E q \in Queries : Begin(p, [cmd |-> "search", q |-> q])
    /\ UNCHANGED adds

StartExport(p, paths) ==
    /\ \E path \in paths, fmt \in Formats :
          Begin(p, [cmd |-> "export", path |-> path, fmt |-> fmt])
    /\ UNCHANGED adds

\* the command returns v
Return(p, v) ==
    /\ pc' = [pc EXCEPT ![p] = "done"]
    /\ ret' = [ret EXCEPT ![p] = [status |-> "ok", val |-> v]]
    /\ data' = [data EXCEPT ![p] = <<>>]

\* the command ends with an exception
Raise(p, what) ==
    /\ pc' = [pc EXCEPT ![p] = "done"]
    /\ ret' = [ret EXCEPT ![p] = [status |-> what, val |-> 0]]
    /\ data' = [data EXCEPT ![p] = <<>>]

(***************************************************************************)
(* open(path, "w"), the buffered writes and the close of a with block.     *)
(***************************************************************************)
OpenW(p, path) ==
    LET i == IF Exists(names, path) THEN names[path] ELSE FreshInode(names, fd)
    IN  /\ names' = [names EXCEPT ![path] = i]
        /\ inodes' = [inodes EXCEPT ![i] = <<>>]
        /\ fd' = [fd EXCEPT ![p] = i]
        /\ off' = [off EXCEPT ![p] = 0]

\* more than a buffer is still to be written: the buffer is flushed and the
\* file stays open
Flushes(p, text) == Len(text) - off[p] > BufSize

\* one write to the open file: a full buffer, or the rest at the close
WriteStep(p, text) ==
    LET n    == IF Flushes(p, text) THEN BufSize ELSE Len(text) - off[p]
        new  == WriteAt(inodes[fd[p]], off[p], SubSeq(text, off[p] + 1, off[p] + n))
        fd2  == IF Flushes(p, text) THEN fd ELSE [fd EXCEPT ![p] = 0]
    IN  /\ fd' = fd2
        /\ off' = [off EXCEPT ![p] = IF Flushes(p, text) THEN @ + n ELSE 0]
        /\ inodes' = Collect(names, fd2, [inodes EXCEPT ![fd[p]] = new])
        /\ names' = names

\* os.rename(src, dst)
\* a mutant of Rename: the source name goes, the target keeps its file
RenameUnlinkOnly(nm, src, dst) ==
    IF src = dst THEN nm ELSE [nm EXCEPT ![src] = 0]

Rename(nm, src, dst) ==
    IF src = dst THEN nm ELSE [nm EXCEPT ![dst] = nm[src], ![src] = 0]

(***************************************************************************)
(* ensure_store                                                            *)
(***************************************************************************)
\* a mutant of EnsureStore: the store file is written whether it exists or not
EnsureStoreAlwaysWrites(p) ==
    /\ pc[p] = "ensure"
    /\ appDir' = TRUE
    /\ pc' = [pc EXCEPT ![p] = "E_open"]
    /\ UNCHANGED <<names, inodes, op, data, fd, off, ret, histVars, everIds>>

\* APP_DIR.mkdir(parents=True, exist_ok=True); NOTES_FILE.exists()
EnsureStore(p) ==
    /\ pc[p] = "ensure"
    /\ appDir' = TRUE
    /\ pc' = [pc EXCEPT ![p] =
                 IF Exists(names, NOTES_FILE) THEN "L_open" ELSE "E_open"]
    /\ UNCHANGED <<names, inodes, op, data, fd, off, ret, histVars, everIds>>

\* NOTES_FILE.open("w")
EnsureOpen(p) ==
    /\ pc[p] = "E_open"
    /\ OpenW(p, NOTES_FILE)
    /\ pc' = [pc EXCEPT ![p] = "E_write"]
    /\ Track
    /\ UNCHANGED <<appDir, op, data, ret, histVars>>

\* json.dump({"next_id": 1, "notes": []}, f, ...) and the close
EnsureWrite(p) ==
    /\ pc[p] = "E_write"
    /\ WriteStep(p, Dump(InitialStore))
    /\ pc' = [pc EXCEPT ![p] =
                 IF Flushes(p, Dump(InitialStore)) THEN @ ELSE "L_open"]
    /\ Track
    /\ UNCHANGED <<appDir, op, data, ret, histVars>>

(***************************************************************************)
(* load_store                                                              *)
(***************************************************************************)
\* NOTES_FILE.open("r")
LoadOpen(p) ==
    /\ pc[p] = "L_open"
    /\ IF Exists(names, NOTES_FILE)
       THEN /\ fd' = [fd EXCEPT ![p] = names[NOTES_FILE]]
            /\ pc' = [pc EXCEPT ![p] = "L_read"]
            /\ UNCHANGED <<ret, data>>
       ELSE /\ Raise(p, "error")
            /\ UNCHANGED fd
    /\ UNCHANGED <<fsVars, op, off, histVars, everIds>>

\* json.load(f) and the close
LoadRead(p) ==
    /\ pc[p] = "L_read"
    /\ LET r == Parse(inodes[fd[p]])
       IN  IF r.ok
           THEN /\ data' = [data EXCEPT ![p] = r.d]
                /\ pc' = [pc EXCEPT ![p] = "body"]
                /\ UNCHANGED ret
           ELSE Raise(p, "corrupt")
    /\ fd' = [fd EXCEPT ![p] = 0]
    /\ inodes' = Collect(names, fd', inodes)
    /\ UNCHANGED <<appDir, names, op, off, histVars, everIds>>

(***************************************************************************)
(* save_store                                                              *)
(***************************************************************************)
\* tmp.open('w')
SaveOpen(p) ==
    /\ pc[p] = "S_open"
    /\ OpenW(p, TmpPath)
    /\ pc' = [pc EXCEPT ![p] = "S_write"]
    /\ saved' = [saved EXCEPT ![p] = TRUE]
    /\ Track
    /\ UNCHANGED <<appDir, op, data, ret, adds, afterDelete, pre>>

\* json.dump(data, f, ...) and the close
SaveWrite(p) ==
    /\ pc[p] = "S_write"
    /\ WriteStep(p, SaveText(data[p]))
    /\ pc' = [pc EXCEPT ![p] =
                 IF Flushes(p, SaveText(data[p])) THEN @ ELSE "S_move"]
    /\ Track
    /\ UNCHANGED <<appDir, op, data, ret, histVars>>

\* what the command returns once save_store has returned
Saved(p) ==
    IF op[p].cmd = "add"
    THEN LET notes == ListNotesOf(data[p]) IN notes[Len(notes)]
    ELSE TRUE

\* shutil.move(str(tmp), str(NOTES_FILE)), and the return of the command
SaveMove(p) ==
    /\ pc[p] = "S_move"
    /\ IF Exists(names, TmpPath)
       THEN /\ names' = Rename(names, TmpPath, NOTES_FILE)
            /\ inodes' = Collect(names', fd, inodes)
            /\ Return(p, Saved(p))
       ELSE /\ Raise(p, "error")
            /\ UNCHANGED <<names, inodes>>
    /\ Track
    /\ UNCHANGED <<appDir, op, fd, off, histVars>>

(***************************************************************************)
(* add_note, list_notes, find_note, delete_note, search_notes, export_notes *)
(* after load_store has returned.                                          *)
(***************************************************************************)
AddNote(p) ==
    /\ pc[p] = "body"
    /\ op[p].cmd = "add"
    /\ IF DictHas(data[p], "notes")
       THEN /\ data' = [data EXCEPT ![p] = AddNoteData(@, op[p].inp, op[p].now)]
            /\ pc' = [pc EXCEPT ![p] = "S_open"]
            /\ UNCHANGED ret
       ELSE Raise(p, "error")
    /\ UNCHANGED <<fsVars, op, fd, off, histVars, everIds>>

ListNotes(p) ==
    /\ pc[p] = "body"
    /\ op[p].cmd = "list"
    /\ Return(p, ListNotesOf(data[p]))
    /\ UNCHANGED <<fsVars, op, fd, off, histVars, everIds>>

FindNote(p) ==
    /\ pc[p] = "body"
    /\ op[p].cmd = "find"
    /\ Return(p, FindIn(ListNotesOf(data[p]), op[p].id))
    /\ UNCHANGED <<fsVars, op, fd, off, histVars, everIds>>

DeleteNote(p) ==
    /\ pc[p] = "body"
    /\ op[p].cmd = "delete"
    /\ LET notes     == DictGet(data[p], "notes", <<>>)
           new_notes == DeleteFrom(notes, op[p].id)
       IN  IF NothingRemoved(notes, new_notes)
           THEN Return(p, FALSE)
           ELSE /\ data' = [data EXCEPT ![p] = DictSet(@, "notes", new_notes)]
                /\ pc' = [pc EXCEPT ![p] = "S_open"]
                /\ UNCHANGED ret
    /\ UNCHANGED <<fsVars, op, fd, off, histVars, everIds>>

SearchNotes(p) ==
    /\ pc[p] = "body"
    /\ op[p].cmd = "search"
    /\ Return(p, SearchIn(ListNotesOf(data[p]), op[p].q))
    /\ UNCHANGED <<fsVars, op, fd, off, histVars, everIds>>

\* a mutant of ExportOpen: the file opened is the store file
ExportOpenStoreFile(p) ==
    /\ pc[p] = "body"
    /\ op[p].cmd = "export"
    /\ OpenW(p, NOTES_FILE)
    /\ pc' = [pc EXCEPT ![p] = "X_write"]
    /\ Track
    /\ UNCHANGED <<appDir, op, data, ret, histVars>>

\* notes = list_notes(); out.open('w')
ExportOpen(p) ==
    /\ pc[p] = "body"
    /\ op[p].cmd = "export"
    /\ OpenW(p, op[p].path)
    /\ pc' = [pc EXCEPT ![p] = "X_write"]
    /\ Track
    /\ UNCHANGED <<appDir, op, data, ret, histVars>>

\* the writes of either branch, the close, and return out
ExportWrite(p) ==
    /\ pc[p] = "X_write"
    /\ LET text == ExportText(ListNotesOf(data[p]), op[p].fmt)
       IN  /\ WriteStep(p, text)
           /\ IF Flushes(p, text)
              THEN UNCHANGED <<pc, ret, data>>
              ELSE Return(p, op[p].path)
    /\ Track
    /\ UNCHANGED <<appDir, op, histVars>>

(***************************************************************************)
(* The process is killed: its open file is closed, what its buffer held    *)
(* is lost.                                                                *)
(***************************************************************************)
Kill(p) ==
    /\ pc[p] \notin {"idle", "done"}
    /\ Raise(p, "killed")
    /\ fd' = [fd EXCEPT ![p] = 0]
    /\ off' = [off EXCEPT ![p] = 0]
    /\ inodes' = Collect(names, fd', inodes)
    /\ UNCHANGED <<appDir, names, op, histVars, everIds>>

(***************************************************************************)
(* main returns and the process exits; the next invocation starts afresh.  *)
(* The document an export wrote to OutPath is then taken away by the user: *)
(* no command reads it, and the next export creates or truncates the file. *)
(***************************************************************************)
NoSnapshot == [exists |-> FALSE, text |-> <<>>]

Exit(p) ==
    /\ pc[p] = "done"
    /\ pc' = [pc EXCEPT ![p] = "idle"]
    /\ op' = [op EXCEPT ![p] = NoOp]
    /\ ret' = [ret EXCEPT ![p] = NoRet]
    /\ afterDelete' = [afterDelete EXCEPT ![p] =
           IF op[p].cmd = "delete" /\ ret[p].status = "ok" THEN op[p].id ELSE 0]
    /\ pre' = [pre EXCEPT ![p] = NoSnapshot]
    /\ saved' = [saved EXCEPT ![p] = FALSE]
    /\ names' = IF op[p].cmd = "export" THEN [names EXCEPT ![OutPath] = 0] ELSE names
    /\ inodes' = Collect(names', fd, inodes)
    /\ UNCHANGED <<appDir, data, fd, off, adds, everIds>>

(***************************************************************************)
(* Specifications.                                                         *)
(***************************************************************************)
\* the steps of ensure_store, load_store and save_store, but for the writing
\* of a missing store file, and the exit
StoreSteps(p) ==
    \/ EnsureStore(p)
    \/ LoadOpen(p)
    \/ LoadRead(p)
    \/ SaveOpen(p)
    \/ SaveWrite(p)
    \/ SaveMove(p)
    \/ Exit(p)

\* ensure_store's writing of a missing store file
EnsureSteps(p) ==
    \/ EnsureOpen(p)
    \/ EnsureWrite(p)

\* the steps of add_note, delete_note and list_notes on the loaded store
WriterSteps(p) ==
    \/ AddNote(p)
    \/ DeleteNote(p)
    \/ ListNotes(p)

\* the steps of find_note, search_notes and export_notes on the loaded store
ReaderSteps(p) ==
    \/ FindNote(p)
    \/ SearchNotes(p)
    \/ ExportOpen(p)
    \/ ExportWrite(p)

\* the steps of a command once it has begun
Step(p) ==
    \/ EnsureSteps(p)
    \/ StoreSteps(p)
    \/ WriterSteps(p)
    \/ ReaderSteps(p)

\* add_note, delete_note and the commands that only read the store
StartCore(p, inputs, times) ==
    \/ StartAdd(p, inputs, times)
    \/ StartList(p)
    \/ StartFind(p)
    \/ StartDelete(p)
    \/ StartSearch(p)
    \/ StartExport(p, {OutPath})

\* one invocation after the other, exports to any path
NextSeq == StartCore(1, NoteInputs, Times) \/ StartExport(1, {NOTES_FILE}) \/ Step(1)

SpecSeq == Init /\ [][NextSeq]_vars

\* one invocation after the other, exports to a path other than the store's
NextCore == StartCore(1, NoteInputs, Times) \/ Step(1)

Spec == Init /\ [][NextCore]_vars

(***************************************************************************)
(* Further specifications.                                                 *)
(***************************************************************************)
\* one invocation after the other, any of which may be killed at any step
NextCrash == StartCore(1, NoteInputs, Times) \/ Step(1) \/ Kill(1)

SpecCrash == Init /\ [][NextCrash]_vars

\* invocations at the same time, none killed, each an add_note or a
\* list_notes
NextConc ==
    \E p \in Procs :
        \/ StartAdd(p, ConcInputs, Times)
        \/ StartList(p)
        \/ EnsureSteps(p)
        \/ StoreSteps(p)
        \/ AddNote(p)
        \/ ListNotes(p)

SpecConc == Init /\ [][NextConc]_vars

\* the store file is there; invocation 1 runs add_note, delete_note or
\* list_notes while invocation 2 runs list_notes or export_notes
InitStored == Init /\ Exists(names, NOTES_FILE)

NextOneWriter ==
    \/ StartAdd(1, ConcInputs, {1})
    \/ StartDelete(1)
    \/ StartList(1)
    \/ WriterSteps(1)
    \/ StartList(2)
    \/ StartExport(2, {OutPath})
    \/ ListNotes(2)
    \/ ExportOpen(2)
    \/ ExportWrite(2)
    \/ \E p \in Procs : StoreSteps(p)

SpecOneWriter == InitStored /\ [][NextOneWriter]_vars

(***************************************************************************)
(* Properties.                                                             *)
(***************************************************************************)
\* the store the file at NOTES_FILE holds
StoreNow == Parse(StoreText)

\* process p has finished the command cmd, which returned
Returned(p, cmd) ==
    pc[p] = "done" /\ op[p].cmd = cmd /\ ret[p].status = "ok"

\* C1: run one after another from the empty store, the k-th add_note call
\* returns the id k, whatever delete_note calls come in between.
C1_KthAddReturnsK ==
    \A p \in Procs :
        (pc[p] = "done" /\ op[p].cmd = "add") =>
            (ret[p].status = "ok" /\ ret[p].val.id = adds)

\* the second add_note returns 2 after the note 1 has been deleted
C1_Witness ==
    /\ Returned(1, "add")
    /\ ret[1].val.id = 2
    /\ everIds = {1, 2}
    /\ NoteIds(ListNotesOf(StoreNow.d)) = {2}

\* C2: under add_note, delete_note and the reading commands, the next_id in
\* the store file is greater than the id of every note the file holds or
\* ever held.
C2_NextIdAboveEveryId ==
    StoreNow.ok =>
        /\ DictHas(StoreNow.d, "next_id")
        /\ \A i \in everIds : i < DictGet(StoreNow.d, "next_id", 0)

\* the store once held the notes 1 and 2 and holds none now
C2_Witness ==
    /\ StoreNow.ok
    /\ everIds = {1, 2}
    /\ ListNotesOf(StoreNow.d) = <<>>
    /\ pc[1] = "idle"

\* C3: no two notes in the store file have the same id.
C3_UniqueIds ==
    StoreNow.ok =>
        LET notes == ListNotesOf(StoreNow.d)
        IN  \A i, j \in 1..Len(notes) : notes[i].id = notes[j].id => i = j

\* C7: a find_note(id) that directly follows a delete_note(id) which
\* returned (true or false) returns None.
C7_FindAfterDeleteIsNone ==
    \A p \in Procs :
        (Returned(p, "find") /\ afterDelete[p] = op[p].id) => ret[p].val = <<>>

\* find_note(id) right after the delete_note(id) of a note the store held
C7_Witness ==
    /\ Returned(1, "find")
    /\ afterDelete[1] = op[1].id
    /\ op[1].id \in everIds
    /\ StoreNow.ok
    /\ ListNotesOf(StoreNow.d) # <<>>

\* the store a command found when it began: a missing file counts as the
\* initial store, which ensure_store writes before the read
StoreBefore(p) == IF pre[p].exists THEN Parse(pre[p].text).d ELSE InitialStore

TextBefore(p) == IF pre[p].exists THEN pre[p].text ELSE Dump(InitialStore)

\* C8: delete_note(id) returns true exactly when a note with the id was in
\* the store; when none was, it does not call save_store and the store file
\* holds what it held.
C8_DeleteAbsentIsNoOp ==
    \A p \in Procs :
        Returned(p, "delete") =>
            LET present == op[p].id \in NoteIds(ListNotesOf(StoreBefore(p)))
            IN  /\ ret[p].val = present
                /\ ~present => (~saved[p] /\ StoreText = TextBefore(p))

\* delete_note of an absent id on a store that holds a note returned false
C8_Witness ==
    /\ Returned(1, "delete")
    /\ ret[1].val = FALSE
    /\ pre[1].exists
    /\ ListNotesOf(StoreBefore(1)) # <<>>

\* s contains q: s = u \o q \o v for some u and v
Contains(s, q) ==
    \E i \in 0..Len(s) : \E j \in i..Len(s) : SubSeq(s, i + 1, j) = q

\* the lower-cased query is part of the lower-cased title, body or a tag
Matches(query, n) ==
    \/ Contains(Lower(n.title), Lower(query))
    \/ Contains(Lower(n.body), Lower(query))
    \/ \E i \in 1..Len(n.tags) : Contains(Lower(n.tags[i]), Lower(query))

\* C9: search_notes(query) returns the notes of list_notes() that match the
\* query, all of them and no others, in stored order.
C9_SearchIsTheMatchingSubsequence ==
    \A p \in Procs :
        Returned(p, "search") =>
            ret[p].val = SelectSeq(ListNotesOf(StoreNow.d),
                                   LAMBDA n : Matches(op[p].q, n))

\* a search returned some notes but not all, one of them for its tag alone
C9_Witness ==
    /\ Returned(1, "search")
    /\ ret[1].val # <<>>
    /\ Len(ret[1].val) < Len(ListNotesOf(StoreNow.d))
    /\ \E i \in 1..Len(ret[1].val) :
          LET n == ret[1].val[i]
          IN  /\ ~Contains(Lower(n.title), Lower(op[1].q))
              /\ ~Contains(Lower(n.body), Lower(op[1].q))

\* no command is at work on the store
Quiet == \A p \in Procs : pc[p] \in {"idle", "done"}

\* C10: between commands the store file, once there, holds both keys, with
\* next_id >= 1; and a missing file reads as the initial store.
C10_StoreFileValid ==
    /\ (Quiet /\ Exists(names, NOTES_FILE)) =>
           /\ StoreNow.ok
           /\ DictHas(StoreNow.d, "next_id")
           /\ DictHas(StoreNow.d, "notes")
           /\ DictGet(StoreNow.d, "next_id", 0) >= 1
    /\ \A p \in Procs :
           (pc[p] = "body" /\ ~pre[p].exists) => data[p] = InitialStore

\* process w is inside save_store
InSave(w) == pc[w] \in {"S_open", "S_write", "S_move"}

\* C4: while a process is inside save_store, the store file holds a whole
\* store at every step, each step leaves it as it was or makes it the whole
\* new store, and the file another process has open for reading is whole
\* and is not changed under it.
C4_SaveIsAtomicToReaders ==
    [][\A w \in Procs :
          InSave(w) =>
              /\ StoreNow.ok
              /\ StoreText' = StoreText \/ StoreText' = Dump(data[w])
              /\ \A r \in Procs \ {w} :
                     pc[r] = "L_read" =>
                         /\ Parse(inodes[fd[r]]).ok
                         /\ pc'[r] = "L_read" =>
                                inodes'[fd[r]] = inodes[fd[r]]
      ]_vars

\* a reader has the store file open while the writer has written a part of
\* the temporary file
C4_Witness ==
    /\ pc[1] = "S_write"
    /\ off[1] > 0
    /\ pc[2] = "L_read"
    /\ fd[2] = names[NOTES_FILE]
    /\ StoreText # Dump(data[1])

\* C5: after a process was killed at some step of a write of the store, the
\* store file is as it was before or holds a whole store, and no later
\* load_store reads a text that is no store.
C5_InterruptedWriteLeavesStoreWhole ==
    \A p \in Procs :
        /\ (pc[p] = "done" /\ ret[p].status = "killed") =>
               \/ (Exists(names, NOTES_FILE) = pre[p].exists
                     /\ StoreText = pre[p].text)
               \/ StoreNow.ok
        /\ ret[p].status # "corrupt"

\* C6: with invocations running at the same time, no load_store reads a
\* text that is no store.
C6_NoCorruptReadUnderConcurrency ==
    \A p \in Procs : ~(pc[p] = "done" /\ ret[p].status = "corrupt")

\* the text holds a store of the expected shape: both keys
WellShaped(text) ==
    /\ Parse(text).ok
    /\ DictHas(Parse(text).d, "next_id")
    /\ DictHas(Parse(text).d, "notes")

\* C11: no command goes on to return on a store file whose content is not a
\* store of the expected shape: load_store fails on it.
C11_NoCommandProceedsOnBadStore ==
    \A p \in Procs :
        (pc[p] = "done" /\ ret[p].status = "ok" /\ pre[p].exists) =>
            WellShaped(pre[p].text)

\* C12: save_store(load_store()) leaves the store file as it is: the text
\* save_store writes for the loaded store is the text the file holds.
C12_SaveOfLoadIsNoOp ==
    (Quiet /\ Exists(names, NOTES_FILE) /\ StoreNow.ok) =>
        SaveText(StoreNow.d) = StoreText

\* a store of two notes whose keys are in the order notes, next_id
C12_Witness ==
    /\ Quiet
    /\ StoreNow.ok
    /\ Len(StoreNow.d) = 2
    /\ StoreNow.d[1][1] = "notes"
    /\ Len(ListNotesOf(StoreNow.d)) = 2

\* C13: the document export_notes(path, "json") has written holds, under
\* the key notes, the notes list_notes() returns for the store, in order
\* and field for field.
C13_JsonExportRoundTrip ==
    \A p \in Procs :
        (Returned(p, "export") /\ op[p].fmt = "json") =>
            LET r == Parse(Content(names, inodes, op[p].path))
            IN  /\ r.ok
                /\ DictHas(r.d, "notes")
                /\ DictGet(r.d, "notes", <<>>) = ListNotesOf(StoreBefore(p))

\* a JSON export of a store of two different notes to a path of its own
C13_Witness ==
    /\ Returned(1, "export")
    /\ op[1].fmt = "json"
    /\ op[1].path = OutPath
    /\ Len(ListNotesOf(StoreNow.d)) = 2
    /\ ListNotesOf(StoreNow.d)[1].title # ListNotesOf(StoreNow.d)[2].title

\* process p is inside ensure_store
InEnsure(p) == pc[p] \in {"ensure", "E_open", "E_write"}

\* C14: ensure_store leaves an existing store file alone, and when it
\* returns the file is there, holding what it held, or the initial store
\* if there was none.
C14_EnsureStoreIdempotent ==
    [][\A p \in Procs :
          InEnsure(p) =>
              /\ (pc[p] = "ensure" /\ Exists(names, NOTES_FILE)) =>
                     (pc'[p] = "L_open" /\ names' = names /\ inodes' = inodes)
              /\ pc'[p] = "L_open" =>
                     (Exists(names', NOTES_FILE) /\ StoreText' = TextBefore(p))
      ]_vars

\* ensure_store has returned on a store that holds all the notes added
C14_Witness ==
    /\ pc[1] = "L_open"
    /\ pre[1].exists
    /\ adds = MaxAdds
    /\ Len(ListNotesOf(StoreNow.d)) = MaxAdds

\* C15: a delete_note(id) that returns true removes one note, the one with
\* the id; the others stay as they are, in their order, and so does next_id.
C15_DeleteRemovesExactlyOne ==
    \A p \in Procs :
        (Returned(p, "delete") /\ ret[p].val = TRUE) =>
            LET before == ListNotesOf(StoreBefore(p))
                after  == ListNotesOf(StoreNow.d)
            IN  /\ StoreNow.ok
                /\ Len(after) = Len(before) - 1
                /\ after = SelectSeq(before, LAMBDA n : n.id # op[p].id)
                /\ DictGet(StoreNow.d, "next_id", 0)
                       = DictGet(StoreBefore(p), "next_id", 0)

\* C16: list_notes returns all the notes of the store in stored order,
\* which under adds and deletes is the order of their ids.
C16_ListIsStoreInInsertionOrder ==
    \A p \in Procs :
        Returned(p, "list") =>
            /\ ret[p].val = ListNotesOf(StoreNow.d)
            /\ \A i, j \in 1..Len(ret[p].val) :
                   i < j => ret[p].val[i].id < ret[p].val[j].id

\* list_notes returned the two notes added
C16_Witness ==
    /\ Returned(1, "list")
    /\ Len(ret[1].val) = 2
    /\ ret[1].val[1].id = 1
    /\ ret[1].val[2].id = 2

\* the note with the id in the store file: <<note>>, or <<>> when the file
\* holds no such note
Stored(id) == IF StoreNow.ok THEN FindIn(ListNotesOf(StoreNow.d), id) ELSE <<>>

\* C17: a note in the store stays as it is from step to step, and leaves
\* the store only in the save of a delete_note called with its id.
C17_NotesImmutableUntilDeleted ==
    [][\A id \in Ids :
          Stored(id) # <<>> =>
              \/ Stored(id)' = Stored(id)
              \/ /\ Stored(id)' = <<>>
                 /\ \E p \in Procs :
                        /\ pc[p] = "S_move"
                        /\ op[p].cmd = "delete"
                        /\ op[p].id = id
      ]_vars

\* both invocations have returned from add_note with the same id
SameIdReturned ==
    /\ Returned(1, "add")
    /\ Returned(2, "add")
    /\ ret[1].val.id = ret[2].val.id

\* C18: when two add_note calls running at the same time have returned the
\* same id, the store holds one note with that id, the note one of the two
\* calls returned, and next_id is the id plus one: the other add is lost.
C18_LastWriterReplacesTheOther ==
    SameIdReturned =>
        LET k    == ret[1].val.id
            same == SelectSeq(ListNotesOf(StoreNow.d), LAMBDA n : n.id = k)
        IN  /\ StoreNow.ok
            /\ Len(same) = 1
            /\ same[1] \in {ret[1].val, ret[2].val}
            /\ DictGet(StoreNow.d, "next_id", 0) = k + 1

\* two different notes were returned with the id 1 and the store holds the
\* second invocation's note alone
C18_Witness ==
    /\ SameIdReturned
    /\ ret[1].val # ret[2].val
    /\ ListNotesOf(StoreNow.d) = <<ret[2].val>>

\* C19: search_notes with the empty query returns the notes list_notes
\* returns, the notes without body and tags among them.
C19_EmptyQueryReturnsAll ==
    \A p \in Procs :
        (Returned(p, "search") /\ op[p].q = <<>>) =>
            ret[p].val = ListNotesOf(StoreNow.d)

\* the empty query returned two notes, one of them without body and tags
C19_Witness ==
    /\ Returned(1, "search")
    /\ op[1].q = <<>>
    /\ Len(ret[1].val) = 2
    /\ \E i \in 1..2 : ret[1].val[i].body = <<>> /\ ret[1].val[i].tags = <<>>

\* process p runs a command that only reads the store
ReadOnly(p) ==
    \/ op[p].cmd \in {"list", "find", "search"}
    \/ op[p].cmd = "export" /\ op[p].path # NOTES_FILE

\* C20: list_notes, find_note, search_notes and an export_notes to a path
\* other than the store file never reach save_store, and the store file
\* that was there when the command started holds what it held.
C20_ReadsLeaveStoreAlone ==
    \A p \in Procs :
        (ReadOnly(p) /\ pre[p].exists) =>
            /\ ~saved[p]
            /\ pc[p] \notin {"S_open", "S_write", "S_move"}
            /\ Exists(names, NOTES_FILE)
            /\ StoreText = pre[p].text

\* a Markdown export to another path has returned on a store with notes
C20_Witness ==
    /\ Returned(1, "export")
    /\ op[1].fmt = "md"
    /\ op[1].path = OutPath
    /\ pre[1].exists
    /\ Len(ListNotesOf(StoreNow.d)) = MaxAdds
====
